---- MODULE Spec2Model ----
(***************************************************************************)
(* ESP32/config_template.h: the configuration header of the ESP32-CAM      *)
(* firmware.  The header is a flat list of preprocessor directives inside  *)
(* an include guard.  The model is the preprocessor working through the    *)
(* header, one directive per step, each time a firmware source includes    *)
(* it: the state is the macro table, the position in the header and the    *)
(* conditional-group flag.  The constants of the header are definitions of *)
(* the same name; Header is the directive list built from them.            *)
(***************************************************************************)
EXTENDS Integers, Sequences, FiniteSets

\* How many times the header is included while one firmware source is
\* preprocessed (the include guard exists for the second and later ones).
MaxIncludes == 3

----------------------------------------------------------------------------
\* Replacement lists.  An integer constant keeps its value, a string literal
\* its text, an identifier its spelling; CONFIG_H has an empty replacement.

IntLit(n) == [kind |-> "int", num |-> n, text |-> ""]

StrLit(s) == [kind |-> "str", num |-> 0, text |-> s]

Ident(s) == [kind |-> "ident", num |-> 0, text |-> s]

Empty == [kind |-> "empty", num |-> 0, text |-> ""]

Undefined == [kind |-> "undef", num |-> 0, text |-> ""]

----------------------------------------------------------------------------
\* The numeric constants of the header, by name.

\* Variant: The usual HTTP port instead of the stream port.
HTTP_PORT_Default80 == 81 - 1

HTTP_PORT == 81

\* Variant: A quality given on the 0-100 percent scale.
JPEG_QUALITY_Percent == 100 - 20

JPEG_QUALITY == 12

\* Variant: The delay rounded up instead of truncated.
FRAME_DELAY_MS_RoundedUp == (1000 \div 30) + 1

FRAME_DELAY_MS == 33

\* The frame rate the comment of FRAME_DELAY_MS aims at, and the
\* milliseconds of a second it divides ("~30 FPS (1000/30 = 33ms)").
TARGET_FPS == 30

MS_PER_SECOND == 1000

PWDN_GPIO_NUM == 32

RESET_GPIO_NUM == -1

XCLK_GPIO_NUM == 0

SIOD_GPIO_NUM == 26

SIOC_GPIO_NUM == 27

Y9_GPIO_NUM == 35

Y8_GPIO_NUM == 34

Y7_GPIO_NUM == 39

Y6_GPIO_NUM == 36

Y5_GPIO_NUM == 21

Y4_GPIO_NUM == 19

\* Variant: Y3 of the WROVER-KIT mapping, which is this board's Y2.
Y3_GPIO_NUM_Wrover == 4 + 1

Y3_GPIO_NUM == 18

\* Variant: Y2 of the WROVER-KIT mapping, which is this board's flash LED.
Y2_GPIO_NUM_Wrover == 5 - 1

Y2_GPIO_NUM == 5

VSYNC_GPIO_NUM == 25

HREF_GPIO_NUM == 23

PCLK_GPIO_NUM == 22

ENABLE_MDNS == 1

\* Variant: OTA switched on although it is not implemented.
ENABLE_OTA_On == 0 + 1

ENABLE_OTA == 0

ENABLE_SERIAL == 1

LED_FLASH_GPIO == 4

ENABLE_FLASH == 0

\* Variant: A brightness one past the top of the scale.
CAM_BRIGHTNESS_TooHigh == 2 + 1

CAM_BRIGHTNESS == 0

CAM_CONTRAST == 0

CAM_SATURATION == 0

CAM_SHARPNESS == 0

\* Variant: Denoise given a 0-2 level like the other sensor settings.
CAM_DENOISE_Level == 1 + 1

CAM_DENOISE == 0

CAM_AE_LEVEL == 0

\* Variant: A gain ceiling one past the top of the scale.
CAM_GAIN_CEILING_TooHigh == 6 + 1

CAM_GAIN_CEILING == 0

WATCHDOG_TIMEOUT == 30

ENABLE_AUTH == 0

----------------------------------------------------------------------------
\* The directives of the header, in file order.  Comment lines, the
\* commented-out static-IP block included, are no directives.

Ifndef(n) == [op |-> "ifndef", name |-> n, val |-> Empty]

Def(n, v) == [op |-> "define", name |-> n, val |-> v]

EndifLine == [op |-> "endif", name |-> "", val |-> Empty]

\* Variant: the flash section repeated further down with another value, so
\* that one name is defined twice.
HeaderRedefines ==
  << Ifndef("CONFIG_H"),
     Def("CONFIG_H", Empty),
     Def("LED_FLASH_GPIO", IntLit(4)),
     Def("ENABLE_FLASH", IntLit(0)),
     Def("ENABLE_FLASH", IntLit(1)),
     EndifLine >>

Header ==
  << Ifndef("CONFIG_H"),
     Def("CONFIG_H", Empty),
     Def("WIFI_SSID", StrLit("YOUR_WIFI_SSID")),
     Def("WIFI_PASSWORD", StrLit("YOUR_WIFI_PASSWORD")),
     Def("HTTP_PORT", IntLit(HTTP_PORT)),
     Def("DEVICE_NAME", StrLit("esp32cam")),
     Def("CAMERA_FRAME_SIZE", Ident("FRAMESIZE_VGA")),
     Def("JPEG_QUALITY", IntLit(JPEG_QUALITY)),
     Def("FRAME_DELAY_MS", IntLit(FRAME_DELAY_MS)),
     Def("PWDN_GPIO_NUM", IntLit(PWDN_GPIO_NUM)),
     Def("RESET_GPIO_NUM", IntLit(RESET_GPIO_NUM)),
     Def("XCLK_GPIO_NUM", IntLit(XCLK_GPIO_NUM)),
     Def("SIOD_GPIO_NUM", IntLit(SIOD_GPIO_NUM)),
     Def("SIOC_GPIO_NUM", IntLit(SIOC_GPIO_NUM)),
     Def("Y9_GPIO_NUM", IntLit(Y9_GPIO_NUM)),
     Def("Y8_GPIO_NUM", IntLit(Y8_GPIO_NUM)),
     Def("Y7_GPIO_NUM", IntLit(Y7_GPIO_NUM)),
     Def("Y6_GPIO_NUM", IntLit(Y6_GPIO_NUM)),
     Def("Y5_GPIO_NUM", IntLit(Y5_GPIO_NUM)),
     Def("Y4_GPIO_NUM", IntLit(Y4_GPIO_NUM)),
     Def("Y3_GPIO_NUM", IntLit(Y3_GPIO_NUM)),
     Def("Y2_GPIO_NUM", IntLit(Y2_GPIO_NUM)),
     Def("VSYNC_GPIO_NUM", IntLit(VSYNC_GPIO_NUM)),
     Def("HREF_GPIO_NUM", IntLit(HREF_GPIO_NUM)),
     Def("PCLK_GPIO_NUM", IntLit(PCLK_GPIO_NUM)),
     Def("ENABLE_MDNS", IntLit(ENABLE_MDNS)),
     Def("ENABLE_OTA", IntLit(ENABLE_OTA)),
     Def("ENABLE_SERIAL", IntLit(ENABLE_SERIAL)),
     Def("LED_FLASH_GPIO", IntLit(LED_FLASH_GPIO)),
     Def("ENABLE_FLASH", IntLit(ENABLE_FLASH)),
     Def("CAM_BRIGHTNESS", IntLit(CAM_BRIGHTNESS)),
     Def("CAM_CONTRAST", IntLit(CAM_CONTRAST)),
     Def("CAM_SATURATION", IntLit(CAM_SATURATION)),
     Def("CAM_SHARPNESS", IntLit(CAM_SHARPNESS)),
     Def("CAM_DENOISE", IntLit(CAM_DENOISE)),
     Def("CAM_AE_LEVEL", IntLit(CAM_AE_LEVEL)),
     Def("CAM_GAIN_CEILING", IntLit(CAM_GAIN_CEILING)),
     Def("WATCHDOG_TIMEOUT", IntLit(WATCHDOG_TIMEOUT)),
     Def("CORS_ORIGIN", StrLit("*")),
     Def("ENABLE_AUTH", IntLit(ENABLE_AUTH)),
     Def("API_KEY", StrLit("your_secret_api_key_here")),
     EndifLine >>

\* Every macro name the header mentions.
MacroNames == { Header[i].name : i \in { j \in 1..Len(Header) : Header[j].op # "endif" } }

\* The 16 camera pin macros (PWDN .. PCLK).
CameraPins ==
  { "PWDN_GPIO_NUM", "RESET_GPIO_NUM", "XCLK_GPIO_NUM", "SIOD_GPIO_NUM",
    "SIOC_GPIO_NUM", "Y9_GPIO_NUM", "Y8_GPIO_NUM", "Y7_GPIO_NUM",
    "Y6_GPIO_NUM", "Y5_GPIO_NUM", "Y4_GPIO_NUM", "Y3_GPIO_NUM",
    "Y2_GPIO_NUM", "VSYNC_GPIO_NUM", "HREF_GPIO_NUM", "PCLK_GPIO_NUM" }

\* The sensor settings whose comment reads "-2 to 2".
SensorAdjustments ==
  { "CAM_BRIGHTNESS", "CAM_CONTRAST", "CAM_SATURATION", "CAM_SHARPNESS",
    "CAM_AE_LEVEL" }

\* The on/off settings: the ENABLE_ flags and CAM_DENOISE.
FeatureFlags ==
  { "ENABLE_MDNS", "ENABLE_OTA", "ENABLE_SERIAL", "ENABLE_FLASH",
    "ENABLE_AUTH", "CAM_DENOISE" }

\* The features whose comment reads "not implemented yet".
NotImplementedYet == { "ENABLE_OTA", "ENABLE_AUTH" }

----------------------------------------------------------------------------
VARIABLES
  macros,    \* the preprocessor's macro table: name -> replacement list
  pc,        \* 0: outside the header; i: directive Header[i] comes next
  skipping,  \* inside the #ifndef group and the group is being skipped
  includes   \* how many times the header has been included so far

vars == << macros, pc, skipping, includes >>

Init ==
  /\ macros = [n \in MacroNames |-> Undefined]
  /\ pc = 0
  /\ skipping = FALSE
  /\ includes = 0

IsDefined(n) == macros[n].kind # "undef"

\* The position after directive pc: the next directive, or out of the file.
Advance == IF pc = Len(Header) THEN 0 ELSE pc + 1

\* A firmware source reaches an #include of the header.
Include ==
  /\ pc = 0
  /\ includes < MaxIncludes
  /\ pc' = 1
  /\ includes' = includes + 1
  /\ UNCHANGED << macros, skipping >>

\* #ifndef CONFIG_H: the group is skipped when the guard macro is defined.
IfndefStep ==
  /\ pc # 0
  /\ Header[pc].op = "ifndef"
  /\ skipping' = IsDefined(Header[pc].name)
  /\ pc' = Advance
  /\ UNCHANGED << macros, includes >>

\* #define NAME replacement, in a group that is not skipped.
DefineStep ==
  /\ pc # 0
  /\ Header[pc].op = "define"
  /\ ~skipping
  /\ macros' = [macros EXCEPT ![Header[pc].name] = Header[pc].val]
  /\ pc' = Advance
  /\ UNCHANGED << skipping, includes >>

\* A directive of a skipped group is read and has no effect.
SkipStep ==
  /\ pc # 0
  /\ Header[pc].op = "define"
  /\ skipping
  /\ pc' = Advance
  /\ UNCHANGED << macros, skipping, includes >>

\* #endif closes the guard's group; it is the last line of the header.
EndifStep ==
  /\ pc # 0
  /\ Header[pc].op = "endif"
  /\ skipping' = FALSE
  /\ pc' = Advance
  /\ UNCHANGED << macros, includes >>

Next ==
  \/ Include
  \/ IfndefStep
  \/ DefineStep
  \/ SkipStep
  \/ EndifStep

Spec == Init /\ [][Next]_vars

\* The header has been processed to its end at least once.
HeaderDone == pc = 0 /\ includes > 0

TypeOK ==
  /\ pc \in 0..Len(Header)
  /\ skipping \in BOOLEAN
  /\ includes \in 0..MaxIncludes
  /\ DOMAIN macros = MacroNames

----------------------------------------------------------------------------
\* What a firmware source sees when it names a macro.

IsInt(n) == macros[n].kind = "int"

Num(n) == macros[n].num

\* Every constant of the set S is defined once the header has been read.
AllDefined(S) == \A n \in S : IsDefined(n)

----------------------------------------------------------------------------
\* C1: the 16 camera pin constants are pairwise distinct, and each is a
\* non-negative integer except RESET_GPIO_NUM, which is exactly -1.
C1_CameraPinsDistinct ==
  /\ Cardinality(CameraPins) = 16
  /\ HeaderDone => AllDefined(CameraPins)
  /\ \A p \in CameraPins :
       IsDefined(p) =>
         /\ IsInt(p)
         /\ IF p = "RESET_GPIO_NUM" THEN Num(p) = -1 ELSE Num(p) >= 0
  /\ \A p, q \in CameraPins :
       (p # q /\ IsDefined(p) /\ IsDefined(q)) => Num(p) # Num(q)

C1_Witness == HeaderDone /\ AllDefined(CameraPins) /\ Num("RESET_GPIO_NUM") < 0

\* C2: JPEG_QUALITY lies in its documented range, 10 <= JPEG_QUALITY <= 63.
C2_JpegQualityInRange ==
  /\ HeaderDone => IsDefined("JPEG_QUALITY")
  /\ IsDefined("JPEG_QUALITY") =>
       IsInt("JPEG_QUALITY") /\ Num("JPEG_QUALITY") \in 10..63

C2_Witness == HeaderDone /\ IsInt("JPEG_QUALITY")

\* C3: every sensor adjustment documented as "-2 to 2" (brightness,
\* contrast, saturation, sharpness, AE level) has a value v, -2 <= v <= 2.
C3_SensorAdjustmentsInRange ==
  /\ HeaderDone => AllDefined(SensorAdjustments)
  /\ \A s \in SensorAdjustments :
       IsDefined(s) => IsInt(s) /\ Num(s) \in -2..2

C3_Witness == HeaderDone /\ \A s \in SensorAdjustments : IsInt(s)

\* C4: CAM_GAIN_CEILING lies in its documented range, 0 <= it <= 6.
C4_GainCeilingInRange ==
  /\ HeaderDone => IsDefined("CAM_GAIN_CEILING")
  /\ IsDefined("CAM_GAIN_CEILING") =>
       IsInt("CAM_GAIN_CEILING") /\ Num("CAM_GAIN_CEILING") \in 0..6

C4_Witness == HeaderDone /\ IsInt("CAM_GAIN_CEILING")

\* C5: the HTTP server port the header configures is 81.
C5_HttpPortIs81 ==
  /\ HeaderDone => IsDefined("HTTP_PORT")
  /\ IsDefined("HTTP_PORT") => macros["HTTP_PORT"] = IntLit(81)

C5_Witness == HeaderDone /\ IsInt("HTTP_PORT")

\* C6: every feature flag (ENABLE_MDNS, ENABLE_OTA, ENABLE_SERIAL,
\* ENABLE_FLASH, ENABLE_AUTH) and the on/off setting CAM_DENOISE has a value
\* in {0, 1}.
C6_FeatureFlagsBoolean ==
  /\ HeaderDone => AllDefined(FeatureFlags)
  /\ \A f \in FeatureFlags : IsDefined(f) => IsInt(f) /\ Num(f) \in {0, 1}

C6_Witness ==
  /\ HeaderDone
  /\ \A f \in FeatureFlags : IsInt(f)
  /\ \E f \in FeatureFlags : Num(f) = 1
  /\ \E f \in FeatureFlags : Num(f) = 0

\* C7: the constants have no lifecycle: once a constant has its value, no
\* step changes it or removes it, however often the header is included.
C7_ConstantsNeverChange ==
  [][\A n \in MacroNames : IsDefined(n) => macros'[n] = macros[n]]_vars

\* The header has been included again with every constant already defined.
C7_Witness == includes >= 2 /\ pc = 0 /\ AllDefined(MacroNames)

\* C8: FRAME_DELAY_MS is the delay of a 30 FPS target by integer division,
\* 1000 \div 30 = 33, and the frame rate it yields, 1000 \div it, is 30.
C8_FrameDelayIs30Fps ==
  /\ HeaderDone => IsDefined("FRAME_DELAY_MS")
  /\ IsDefined("FRAME_DELAY_MS") =>
       /\ IsInt("FRAME_DELAY_MS")
       /\ Num("FRAME_DELAY_MS") = MS_PER_SECOND \div TARGET_FPS
       /\ Num("FRAME_DELAY_MS") = 33
       /\ MS_PER_SECOND \div Num("FRAME_DELAY_MS") = TARGET_FPS

C8_Witness == HeaderDone /\ IsInt("FRAME_DELAY_MS") /\ Num("FRAME_DELAY_MS") > 0

\* C9: every feature documented as "not implemented yet" is disabled:
\* ENABLE_OTA = 0 and ENABLE_AUTH = 0.
C9_UnimplementedDisabled ==
  /\ HeaderDone => AllDefined(NotImplementedYet)
  /\ \A f \in NotImplementedYet : IsDefined(f) => macros[f] = IntLit(0)

C9_Witness == HeaderDone /\ \A f \in NotImplementedYet : IsInt(f)

\* C10: the flash LED pin is a non-negative integer (4) different from
\* every one of the 16 camera pin constants.
C10_FlashLedOffCameraPins ==
  /\ HeaderDone => IsDefined("LED_FLASH_GPIO")
  /\ IsDefined("LED_FLASH_GPIO") =>
       /\ macros["LED_FLASH_GPIO"] = IntLit(4)
       /\ \A p \in CameraPins :
            IsDefined(p) => Num(p) # Num("LED_FLASH_GPIO")

C10_Witness ==
  HeaderDone /\ IsInt("LED_FLASH_GPIO") /\ AllDefined(CameraPins)

====
